---------------------------- MODULE Spec2Model ----------------------------
(***************************************************************************)
(* MiniLang: lexer (src/lexer.py), recursive-descent parser                *)
(* (src/parser.py), tree-walking Interpreter (src/interpreter.py) and the  *)
(* driver (src/main.py).  SpecLexer drives a bare Lexer, SpecParser a      *)
(* Parser, SpecEval the Interpreter on parsed nodes, SpecRepl the driver's *)
(* read-eval-print loop; SpecPunct drives a Lexer over punctuation, and    *)
(* SpecInsert makes a second Lexer on a text with blanks or a comment put  *)
(* in between two tokens.                                                  *)
(*                                                                         *)
(* A Python str is a sequence of one-character strings; text[i] of the     *)
(* source (0-based) is text[i + 1] here.  A Python object is a record of   *)
(* its attributes.  A method that can raise returns a record that carries  *)
(* the object's state at the raise and the kind of the exception in err.   *)
(***************************************************************************)
EXTENDS Integers, Sequences, FiniteSets, TLC

VARIABLES
    text,            \* Lexer.text
    pos,             \* Lexer.pos
    current_char,    \* Lexer.current_char
    current_token,   \* Parser.current_token
    called,          \* the last call made on the objects and its outcome
    pc,              \* where the client of the objects, or repl's loop, stands
    stdout,          \* what the driver has printed so far
    interpreter      \* the attributes of the Interpreter instance of repl()

vars == <<text, pos, current_char, current_token, called, pc, stdout, interpreter>>

None == "None"
NoErr == "none"

(***************************************************************************)
(* Bounds of the model.                                                    *)
(***************************************************************************)
MaxTextLen == 3      \* longest text handed to a bare Lexer
MaxOperands == 3     \* most operands of an operator chain
MaxBody == 2         \* most statements in the body of a generated for loop

(***************************************************************************)
(* src/tokens.py                                                           *)
(***************************************************************************)
INTEGER == "INTEGER"
PLUS == "PLUS"
MINUS == "MINUS"
MUL == "MUL"
DIV == "DIV"
LPAREN == "LPAREN"
RPAREN == "RPAREN"
LET_ == "LET"
ID == "ID"
ASSIGN == "ASSIGN"
IF_ == "IF"
ELSE_ == "ELSE"
WHILE == "WHILE"
PRINT == "PRINT"
STRING_ == "STRING"
FOR == "FOR"
SEMI == "SEMI"
DEF_ == "DEF"
COMMA == "COMMA"
RETURN == "RETURN"
LBRACKET == "LBRACKET"
RBRACKET == "RBRACKET"
TRUE_ == "TRUE"
FALSE_ == "FALSE"
LBRACE == "LBRACE"
RBRACE == "RBRACE"
LT == "LT"
GT == "GT"
EQ == "EQ"
NEQ == "NEQ"
EOF == "EOF"

Token(type, value) == [type |-> type, value |-> value]

\* Two tokens are the same token: same type and same value.
TokEq(a, b) == a.type = b.type /\ a.value = b.value

KEYWORDS ==
    [w \in { <<"l","e","t">>, <<"i","f">>, <<"e","l","s","e">>,
             <<"w","h","i","l","e">>, <<"p","r","i","n","t">>, <<"f","o","r">>,
             <<"d","e","f">>, <<"r","e","t","u","r","n">>, <<"t","r","u","e">>,
             <<"f","a","l","s","e">> } |->
        CASE w = <<"l","e","t">> -> Token(LET_, w)
          [] w = <<"i","f">> -> Token(IF_, w)
          [] w = <<"e","l","s","e">> -> Token(ELSE_, w)
          [] w = <<"w","h","i","l","e">> -> Token(WHILE, w)
          [] w = <<"p","r","i","n","t">> -> Token(PRINT, w)
          [] w = <<"f","o","r">> -> Token(FOR, w)
          [] w = <<"d","e","f">> -> Token(DEF_, w)
          [] w = <<"r","e","t","u","r","n">> -> Token(RETURN, w)
          [] w = <<"t","r","u","e">> -> Token(TRUE_, w)
          [] w = <<"f","a","l","s","e">> -> Token(FALSE_, w)]

(***************************************************************************)
(* str.isspace / isdigit / isalpha / isalnum on the characters the model   *)
(* feeds the lexer.                                                        *)
(***************************************************************************)
Digits == <<"0", "1", "2", "3", "4", "5", "6", "7", "8", "9">>
Letters == {"a", "b", "c", "d", "e", "f", "g", "h", "i", "j", "k", "l", "m",
            "n", "o", "p", "q", "r", "s", "t", "u", "v", "w", "x", "y", "z",
            "A", "B", "C", "D", "E", "F", "G", "H", "I", "J", "K", "L", "M",
            "N", "O", "P", "Q", "R", "S", "T", "U", "V", "W", "X", "Y", "Z"}

isspace(c) == c \in {" ", "\n", "\t", "\r"}
\* str.isdigit is true of more than the decimal digits: of "²" among others
isdigit(c) == (\E i \in 1..10 : Digits[i] = c) \/ c = "²"
isalpha(c) == c \in Letters
isalnum(c) == isalpha(c) \/ isdigit(c)

DigitValue(c) == (CHOOSE i \in 1..10 : Digits[i] = c) - 1

\* int(result) accepts a run of decimal digits and raises ValueError on "²"
int_raises(result) == \E i \in 1..Len(result) : \A d \in 1..10 : Digits[d] # result[i]

\* int(result) for a run of decimal digits
RECURSIVE int(_)
int(result) ==
    IF result = <<>> THEN 0
    ELSE 10 * int(SubSeq(result, 1, Len(result) - 1)) + DigitValue(result[Len(result)])

(***************************************************************************)
(* src/lexer.py.  A lexer state ls is [pos, current_char]; the text never  *)
(* changes after the constructor.                                          *)
(***************************************************************************)
Lexer(t) == [pos |-> 0, current_char |-> IF 0 < Len(t) THEN t[1] ELSE None]

\* advance gone wrong: the last character is taken for the end
advance_off_by_one(t, ls) ==
    LET p == ls.pos + 1
    IN  [pos |-> p,
         current_char |-> IF p > Len(t) - 2 THEN None ELSE t[p + 1]]

advance(t, ls) ==
    LET p == ls.pos + 1
    IN  [pos |-> p,
         current_char |-> IF p > Len(t) - 1 THEN None ELSE t[p + 1]]

RECURSIVE skip_whitespace(_, _)
skip_whitespace(t, ls) ==
    IF ls.current_char # None /\ isspace(ls.current_char)
    THEN skip_whitespace(t, advance(t, ls))
    ELSE ls

RECURSIVE skip_comment(_, _), skip_comment_to_end(_, _)
\* skip_comment gone wrong: the newline does not end the comment
skip_comment_to_end(t, ls) ==
    IF ls.current_char # None
    THEN skip_comment_to_end(t, advance(t, ls))
    ELSE ls

skip_comment(t, ls) ==
    IF ls.current_char # None /\ ls.current_char # "\n"
    THEN skip_comment(t, advance(t, ls))
    ELSE ls

\* the while loop of get_integer / get_id: [ls, result]
RECURSIVE get_integer_loop(_, _, _)
get_integer_loop(t, ls, result) ==
    IF ls.current_char # None /\ isdigit(ls.current_char)
    THEN get_integer_loop(t, advance(t, ls), Append(result, ls.current_char))
    ELSE [ls |-> ls, result |-> result]

get_integer(t, ls) ==
    LET r == get_integer_loop(t, ls, <<>>)
    IN  IF int_raises(r.result)
        THEN [ls |-> r.ls, value |-> None, err |-> "ValueError", result |-> r.result]
        ELSE [ls |-> r.ls, value |-> int(r.result), err |-> NoErr, result |-> r.result]

RECURSIVE get_id_loop(_, _, _)
get_id_loop(t, ls, result) ==
    IF ls.current_char # None /\ isalnum(ls.current_char)
    THEN get_id_loop(t, advance(t, ls), Append(result, ls.current_char))
    ELSE [ls |-> ls, result |-> result]

get_id(t, ls) ==
    LET r == get_id_loop(t, ls, <<>>)
    IN  [ls |-> r.ls,
         tok |-> IF r.result \in DOMAIN KEYWORDS THEN KEYWORDS[r.result]
                 ELSE Token(ID, r.result)]

\* Lexer.error: the LexerError raised, with the character its message names
error(ls) == [ls |-> ls, tok |-> None, err |-> "LexerError", errchar |-> ls.current_char]

Returns(ls, tok) == [ls |-> ls, tok |-> tok, err |-> NoErr, errchar |-> None]

RECURSIVE get_string_loop(_, _, _)
get_string_loop(t, ls, result) ==
    IF ls.current_char # None /\ ls.current_char # "\""
    THEN get_string_loop(t, advance(t, ls), Append(result, ls.current_char))
    ELSE [ls |-> ls, result |-> result]

get_string(t, ls) ==
    LET r == get_string_loop(t, advance(t, ls), <<>>)
    IN  IF r.ls.current_char = None THEN error(r.ls)
        ELSE Returns(advance(t, r.ls), Token(STRING_, r.result))

peek(t, ls) ==
    LET peek_pos == ls.pos + 1
    IN  IF peek_pos > Len(t) - 1 THEN None ELSE t[peek_pos + 1]

\* lexer.py imports neither LBRACKET nor RBRACKET from tokens: evaluating the
\* name, after advance() has run, raises NameError.
UnboundName(ls, name) == [ls |-> ls, tok |-> None, err |-> "NameError", errchar |-> name]

\* OneChar gone wrong: the token is returned with the cursor left on its character
OneChar_stays(t, ls, type) == Returns(ls, Token(type, <<ls.current_char>>))

OneChar(t, ls, type) == Returns(advance(t, ls), Token(type, <<ls.current_char>>))

RECURSIVE get_next_token(_, _)
get_next_token(t, ls) ==
    LET c == ls.current_char
    IN  IF c = None THEN Returns(ls, Token(EOF, None))
        ELSE IF isspace(c) THEN get_next_token(t, skip_whitespace(t, ls))
        ELSE IF isdigit(c) THEN
            LET r == get_integer(t, ls)
            IN  IF r.err # NoErr
                THEN [ls |-> r.ls, tok |-> None, err |-> r.err, errchar |-> r.result]
                ELSE Returns(r.ls, Token(INTEGER, r.value))
        ELSE IF isalpha(c) THEN
            LET r == get_id(t, ls) IN Returns(r.ls, r.tok)
        ELSE IF c = "#" THEN get_next_token(t, skip_comment(t, ls))
        ELSE IF c = ";" THEN OneChar(t, ls, SEMI)
        ELSE IF c = "\"" THEN get_string(t, ls)
        ELSE IF c = "=" THEN
            IF peek(t, ls) = "="
            THEN Returns(advance(t, advance(t, ls)), Token(EQ, <<"=", "=">>))
            ELSE OneChar(t, ls, ASSIGN)
        ELSE IF c = "!" THEN
            IF peek(t, ls) = "="
            THEN Returns(advance(t, advance(t, ls)), Token(NEQ, <<"!", "=">>))
            ELSE error(ls)
        ELSE IF c = "<" THEN OneChar(t, ls, LT)
        ELSE IF c = ">" THEN OneChar(t, ls, GT)
        ELSE IF c = "+" THEN OneChar(t, ls, PLUS)
        ELSE IF c = "-" THEN OneChar(t, ls, MINUS)
        ELSE IF c = "*" THEN OneChar(t, ls, MUL)
        ELSE IF c = "/" THEN OneChar(t, ls, DIV)
        ELSE IF c = "(" THEN OneChar(t, ls, LPAREN)
        ELSE IF c = ")" THEN OneChar(t, ls, RPAREN)
        ELSE IF c = "{" THEN OneChar(t, ls, LBRACE)
        ELSE IF c = "}" THEN OneChar(t, ls, RBRACE)
        ELSE IF c = "," THEN OneChar(t, ls, COMMA)
        ELSE IF c = "[" THEN UnboundName(advance(t, ls), "LBRACKET")
        ELSE IF c = "]" THEN UnboundName(advance(t, ls), "RBRACKET")
        ELSE error(ls)

\* old_pos/old_char are restored only on the path on which get_next_token
\* returns: a raise leaves peek_token before the two assignments.
peek_token(t, ls) ==
    LET r == get_next_token(t, ls)
    IN  IF r.err # NoErr THEN r
        ELSE Returns(ls, r.tok)


(***************************************************************************)
(* src/ast_nodes.py: a node is the record of its attributes, with the name *)
(* of its class in kind (type(node).__name__).                             *)
(***************************************************************************)
BinOp(left, op, right) == [kind |-> "BinOp", left |-> left, op |-> op, right |-> right]
Num(token) == [kind |-> "Num", token |-> token, value |-> token.value]
VarDecl(var_node, value_node) ==
    [kind |-> "VarDecl", var_node |-> var_node, value_node |-> value_node]
Var(token) == [kind |-> "Var", token |-> token, value |-> token.value]
Bool(token) == [kind |-> "Bool", token |-> token, value |-> token.value]
Block(statements) == [kind |-> "Block", statements |-> statements]
IfNode(condition, then_block, else_block) ==
    [kind |-> "IfNode", condition |-> condition, then_block |-> then_block,
     else_block |-> else_block]
WhileNode(condition, body) == [kind |-> "WhileNode", condition |-> condition, body |-> body]
PrintNode(expression) == [kind |-> "PrintNode", expression |-> expression]
AssignNode(var_node, value_node) ==
    [kind |-> "AssignNode", var_node |-> var_node, value_node |-> value_node]
String(token) == [kind |-> "String", token |-> token, value |-> token.value]
FunctionDefNode(name, params, body) ==
    [kind |-> "FunctionDefNode", name |-> name, params |-> params, body |-> body]
FunctionCallNode(name, args) == [kind |-> "FunctionCallNode", name |-> name, args |-> args]
ReturnNode(value_node) == [kind |-> "ReturnNode", value_node |-> value_node]
\* None where a node is expected (IfNode.else_block): type(None).__name__
NoneNode == [kind |-> "NoneType"]

(***************************************************************************)
(* src/parser.py.  The parser reads its lexer one token at a time; the    *)
(* tokens a lexer yields depend on its text alone, so the parser is        *)
(* modelled over ts = TokenStream(text), the outcomes of the successive    *)
(* get_next_token calls on a fresh Lexer(text), up to the first EOF or the *)
(* first raise.  A parser state ps is [n, pos, current_char,               *)
(* current_token]: the number of tokens read, the lexer's cursor and the   *)
(* current token.  A method returns [ps, node, err, expected, found]: the  *)
(* state it leaves, the node it returns, and, when it raises, the kind of  *)
(* the exception with what the message of a ParserError names.             *)
(***************************************************************************)
RECURSIVE TokenStreamFrom(_, _)
TokenStreamFrom(t, ls) ==
    LET r == get_next_token(t, ls)
    IN  IF r.err # NoErr \/ r.tok.type = EOF THEN <<r>>
        ELSE <<r>> \o TokenStreamFrom(t, r.ls)

TokenStream(t) == TokenStreamFrom(t, Lexer(t))

\* the outcome of the k-th get_next_token call: at EOF every further call
\* returns EOF again and leaves the cursor where it is
Entry(ts, k) == IF k <= Len(ts) THEN ts[k] ELSE ts[Len(ts)]
Ok(ps, node) == [ps |-> ps, node |-> node, err |-> NoErr, expected |-> None, found |-> None]
Raise(ps, err, expected, found) ==
    [ps |-> ps, node |-> None, err |-> err, expected |-> expected, found |-> found]

\* r, or what F makes of it when r returned
Then(r, F(_)) == IF r.err # NoErr THEN r ELSE F(r)

\* self.current_token = self.lexer.get_next_token()
NextToken(ts, ps) ==
    LET r == Entry(ts, ps.n + 1)
    IN  IF r.err # NoErr
        THEN Raise([n |-> ps.n + 1, pos |-> r.ls.pos, current_char |-> r.ls.current_char,
                    current_token |-> ps.current_token], r.err, None, r.errchar)
        ELSE Ok([n |-> ps.n + 1, pos |-> r.ls.pos, current_char |-> r.ls.current_char,
                 current_token |-> r.tok], None)

\* Parser.__init__: the first token of a lexer that has yielded none
Parser(ts) == NextToken(ts, [n |-> 0, current_token |-> None])

\* Parser.error
parser_error(ps) == Raise(ps, "ParserError", None, ps.current_token)

eat(ts, ps, token_type) ==
    IF ps.current_token.type = token_type
    THEN NextToken(ts, ps)
    ELSE Raise(ps, "ParserError", token_type, ps.current_token)

RECURSIVE primary(_, _), call_args(_, _, _), term(_, _), term_loop(_, _, _),
          comparison(_, _), comparison_loop(_, _, _), expr(_, _), expr_loop(_, _, _)

\* while self.current_token.type == COMMA: eat(COMMA); args.append(self.expr())
call_args(ts, ps, args) ==
    IF ps.current_token.type = COMMA
    THEN Then(eat(ts, ps, COMMA), LAMBDA r1 :
         Then(expr(ts, r1.ps), LAMBDA r2 :
         call_args(ts, r2.ps, Append(args, r2.node))))
    ELSE Ok(ps, args)

primary(ts, ps) ==
    LET token == ps.current_token
    IN  IF token.type = LPAREN THEN
            Then(eat(ts, ps, LPAREN), LAMBDA r1 :
            Then(expr(ts, r1.ps), LAMBDA r2 :
            Then(eat(ts, r2.ps, RPAREN), LAMBDA r3 :
            Ok(r3.ps, r2.node))))
        ELSE IF token.type = INTEGER THEN
            Then(eat(ts, ps, INTEGER), LAMBDA r1 : Ok(r1.ps, Num(token)))
        ELSE IF token.type = STRING_ THEN
            Then(eat(ts, ps, STRING_), LAMBDA r1 : Ok(r1.ps, String(token)))
        ELSE IF token.type = ID THEN
            Then(eat(ts, ps, ID), LAMBDA r1 :
            IF r1.ps.current_token.type = LPAREN THEN
                Then(eat(ts, r1.ps, LPAREN), LAMBDA r2 :
                Then(IF r2.ps.current_token.type # RPAREN
                     THEN Then(expr(ts, r2.ps), LAMBDA r3 :
                          call_args(ts, r3.ps, <<r3.node>>))
                     ELSE Ok(r2.ps, <<>>), LAMBDA r4 :
                Then(eat(ts, r4.ps, RPAREN), LAMBDA r5 :
                Ok(r5.ps, FunctionCallNode(token.value, r4.node)))))
            ELSE Ok(r1.ps, Var(token)))
        ELSE IF token.type = TRUE_ THEN
            Then(eat(ts, ps, TRUE_), LAMBDA r1 : Ok(r1.ps, Bool(token)))
        ELSE IF token.type = FALSE_ THEN
            Then(eat(ts, ps, FALSE_), LAMBDA r1 : Ok(r1.ps, Bool(token)))
        ELSE parser_error(ps)

\* term_loop gone wrong: the right operand of * and / is a whole term (right-nested)
term_loop_right(ts, ps, node) ==
    IF ps.current_token.type \in {MUL, DIV}
    THEN LET op_token == ps.current_token
         IN  Then(eat(ts, ps, op_token.type), LAMBDA r1 :
             Then(term(ts, r1.ps), LAMBDA r2 :
             Ok(r2.ps, BinOp(node, op_token, r2.node))))
    ELSE Ok(ps, node)

\* while self.current_token.type in (MUL, DIV)
term_loop(ts, ps, node) ==
    IF ps.current_token.type \in {MUL, DIV}
    THEN LET op_token == ps.current_token
         IN  Then(eat(ts, ps, op_token.type), LAMBDA r1 :
             Then(primary(ts, r1.ps), LAMBDA r2 :
             term_loop(ts, r2.ps, BinOp(node, op_token, r2.node))))
    ELSE Ok(ps, node)

term(ts, ps) == Then(primary(ts, ps), LAMBDA r : term_loop(ts, r.ps, r.node))

\* comparison_loop gone wrong: the right operand is a primary, not a term
comparison_loop_primary(ts, ps, node) ==
    IF ps.current_token.type \in {GT, LT, EQ, NEQ}
    THEN LET op_token == ps.current_token
         IN  Then(eat(ts, ps, op_token.type), LAMBDA r1 :
             Then(primary(ts, r1.ps), LAMBDA r2 :
             comparison_loop(ts, r2.ps, BinOp(node, op_token, r2.node))))
    ELSE Ok(ps, node)

\* while self.current_token.type in (GT, LT, EQ, NEQ)
comparison_loop(ts, ps, node) ==
    IF ps.current_token.type \in {GT, LT, EQ, NEQ}
    THEN LET op_token == ps.current_token
         IN  Then(eat(ts, ps, op_token.type), LAMBDA r1 :
             Then(term(ts, r1.ps), LAMBDA r2 :
             comparison_loop(ts, r2.ps, BinOp(node, op_token, r2.node))))
    ELSE Ok(ps, node)

comparison(ts, ps) == Then(term(ts, ps), LAMBDA r : comparison_loop(ts, r.ps, r.node))

\* while self.current_token.type in (PLUS, MINUS)
expr_loop(ts, ps, node) ==
    IF ps.current_token.type \in {PLUS, MINUS}
    THEN LET op_token == ps.current_token
         IN  Then(eat(ts, ps, op_token.type), LAMBDA r1 :
             Then(comparison(ts, r1.ps), LAMBDA r2 :
             expr_loop(ts, r2.ps, BinOp(node, op_token, r2.node))))
    ELSE Ok(ps, node)

expr(ts, ps) == Then(comparison(ts, ps), LAMBDA r : expr_loop(ts, r.ps, r.node))

var_declaration(ts, ps) ==
    Then(eat(ts, ps, LET_), LAMBDA r1 :
    LET var_node == Var(r1.ps.current_token)
    IN  Then(eat(ts, r1.ps, ID), LAMBDA r2 :
        Then(eat(ts, r2.ps, ASSIGN), LAMBDA r3 :
        Then(expr(ts, r3.ps), LAMBDA r4 :
        Ok(r4.ps, VarDecl(var_node, r4.node))))))

assignment(ts, ps) ==
    LET var_node == Var(ps.current_token)
    IN  Then(eat(ts, ps, ID), LAMBDA r1 :
        Then(eat(ts, r1.ps, ASSIGN), LAMBDA r2 :
        Then(expr(ts, r2.ps), LAMBDA r3 :
        Ok(r3.ps, AssignNode(var_node, r3.node)))))

print_statement(ts, ps) ==
    Then(eat(ts, ps, PRINT), LAMBDA r1 :
    Then(eat(ts, r1.ps, LPAREN), LAMBDA r2 :
    Then(expr(ts, r2.ps), LAMBDA r3 :
    Then(eat(ts, r3.ps, RPAREN), LAMBDA r4 :
    Ok(r4.ps, PrintNode(r3.node))))))

return_statement(ts, ps) ==
    Then(eat(ts, ps, RETURN), LAMBDA r1 :
    Then(expr(ts, r1.ps), LAMBDA r2 :
    Ok(r2.ps, ReturnNode(r2.node))))

\* PeekToken gone wrong: the lookahead reads the parser's current token (Parser.peek)
PeekToken_current(ts, ps) == Ok(ps, ps.current_token)

\* self.lexer.peek_token(), called from statement: the token the next
\* get_next_token returns, with the cursor restored; a raise inside it leaves
\* the cursor where the lexer stopped
PeekToken(ts, ps) ==
    LET r == Entry(ts, ps.n + 1)
    IN  IF r.err # NoErr
        THEN Raise([n |-> ps.n + 1, pos |-> r.ls.pos, current_char |-> r.ls.current_char,
                    current_token |-> ps.current_token], r.err, None, r.errchar)
        ELSE Ok(ps, r.tok)

RECURSIVE statement(_, _), block(_, _), block_loop(_, _, _), if_statement(_, _),
          while_statement(_, _), for_statement(_, _), function_definition(_, _),
          params_loop(_, _, _)

\* block gone wrong: at the end of input the block is returned unclosed
block_unclosed(ts, ps) ==
    Then(eat(ts, ps, LBRACE), LAMBDA r1 :
    Then(block_loop(ts, r1.ps, <<>>), LAMBDA r2 :
    IF r2.ps.current_token.type = EOF THEN Ok(r2.ps, Block(r2.node))
    ELSE Then(eat(ts, r2.ps, RBRACE), LAMBDA r3 :
         Ok(r3.ps, Block(r2.node)))))

\* while current_token.type != RBRACE and current_token.type != EOF
block_loop(ts, ps, statements) ==
    IF ps.current_token.type # RBRACE /\ ps.current_token.type # EOF
    THEN Then(statement(ts, ps), LAMBDA r :
         block_loop(ts, r.ps, Append(statements, r.node)))
    ELSE Ok(ps, statements)

block(ts, ps) ==
    Then(eat(ts, ps, LBRACE), LAMBDA r1 :
    Then(block_loop(ts, r1.ps, <<>>), LAMBDA r2 :
    Then(eat(ts, r2.ps, RBRACE), LAMBDA r3 :
    Ok(r3.ps, Block(r2.node)))))

if_statement(ts, ps) ==
    Then(eat(ts, ps, IF_), LAMBDA r1 :
    Then(eat(ts, r1.ps, LPAREN), LAMBDA r2 :
    Then(expr(ts, r2.ps), LAMBDA r3 :
    Then(eat(ts, r3.ps, RPAREN), LAMBDA r4 :
    Then(block(ts, r4.ps), LAMBDA r5 :
    IF r5.ps.current_token.type = ELSE_
    THEN Then(eat(ts, r5.ps, ELSE_), LAMBDA r6 :
         Then(block(ts, r6.ps), LAMBDA r7 :
         Ok(r7.ps, IfNode(r3.node, r5.node, r7.node))))
    ELSE Ok(r5.ps, IfNode(r3.node, r5.node, NoneNode)))))))

while_statement(ts, ps) ==
    Then(eat(ts, ps, WHILE), LAMBDA r1 :
    Then(eat(ts, r1.ps, LPAREN), LAMBDA r2 :
    Then(expr(ts, r2.ps), LAMBDA r3 :
    Then(eat(ts, r3.ps, RPAREN), LAMBDA r4 :
    Then(block(ts, r4.ps), LAMBDA r5 :
    Ok(r5.ps, WhileNode(r3.node, r5.node)))))))

\* desugar gone wrong: the increment is put before the body's statements
desugar_incr_first(init_node, condition_node, increment_node, body_node) ==
    Block(<<init_node,
            WhileNode(condition_node, Block(<<increment_node>> \o body_node.statements))>>)

\* new_body_statements = body_node.statements[:] + [increment_node];
\* wrapper_block.statements = [init_node, while_node]
desugar(init_node, condition_node, increment_node, body_node) ==
    LET new_body_statements == Append(body_node.statements, increment_node)
        new_body == Block(new_body_statements)
        while_node == WhileNode(condition_node, new_body)
    IN  Block(<<init_node, while_node>>)

for_statement(ts, ps) ==
    Then(eat(ts, ps, FOR), LAMBDA r1 :
    Then(eat(ts, r1.ps, LPAREN), LAMBDA r2 :
    Then(IF r2.ps.current_token.type = LET_
         THEN var_declaration(ts, r2.ps)
         ELSE assignment(ts, r2.ps), LAMBDA r3 :
    Then(eat(ts, r3.ps, SEMI), LAMBDA r4 :
    Then(expr(ts, r4.ps), LAMBDA r5 :
    Then(eat(ts, r5.ps, SEMI), LAMBDA r6 :
    Then(assignment(ts, r6.ps), LAMBDA r7 :
    Then(eat(ts, r7.ps, RPAREN), LAMBDA r8 :
    Then(block(ts, r8.ps), LAMBDA r9 :
    Ok(r9.ps, desugar(r3.node, r5.node, r7.node, r9.node)))))))))))

\* while self.current_token.type == COMMA: eat(COMMA); params.append(...); eat(ID)
params_loop(ts, ps, params) ==
    IF ps.current_token.type = COMMA
    THEN Then(eat(ts, ps, COMMA), LAMBDA r1 :
         Then(eat(ts, r1.ps, ID), LAMBDA r2 :
         params_loop(ts, r2.ps, Append(params, r1.ps.current_token.value))))
    ELSE Ok(ps, params)

function_definition(ts, ps) ==
    Then(eat(ts, ps, DEF_), LAMBDA r1 :
    LET func_name == r1.ps.current_token.value
    IN  Then(eat(ts, r1.ps, ID), LAMBDA r2 :
        Then(eat(ts, r2.ps, LPAREN), LAMBDA r3 :
        Then(IF r3.ps.current_token.type = ID
             THEN Then(eat(ts, r3.ps, ID), LAMBDA r4 :
                  params_loop(ts, r4.ps, <<r3.ps.current_token.value>>))
             ELSE Ok(r3.ps, <<>>), LAMBDA r5 :
        Then(eat(ts, r5.ps, RPAREN), LAMBDA r6 :
        Then(block(ts, r6.ps), LAMBDA r7 :
        Ok(r7.ps, FunctionDefNode(func_name, r5.node, r7.node))))))))

\* elif self.current_token.type == ID and self.lexer.peek_token().type == ASSIGN
statement_rest(ts, ps) ==
    IF ps.current_token.type = FOR THEN for_statement(ts, ps)
    ELSE IF ps.current_token.type = DEF_ THEN function_definition(ts, ps)
    ELSE IF ps.current_token.type = RETURN THEN return_statement(ts, ps)
    ELSE expr(ts, ps)

statement(ts, ps) ==
    IF ps.current_token.type = IF_ THEN if_statement(ts, ps)
    ELSE IF ps.current_token.type = WHILE THEN while_statement(ts, ps)
    ELSE IF ps.current_token.type = PRINT THEN print_statement(ts, ps)
    ELSE IF ps.current_token.type = LET_ THEN var_declaration(ts, ps)
    ELSE IF ps.current_token.type = ID THEN
        Then(PeekToken(ts, ps), LAMBDA r :
        IF r.node.type = ASSIGN THEN assignment(ts, ps) ELSE statement_rest(ts, ps))
    ELSE statement_rest(ts, ps)

\* while self.current_token.type != EOF: block.statements.append(self.statement())
RECURSIVE parse_loop(_, _, _)
\* parse_loop gone wrong: a ';' between statements is skipped
parse_loop_skips_semi(ts, ps, statements) ==
    IF ps.current_token.type = EOF THEN Ok(ps, statements)
    ELSE Then(IF ps.current_token.type = SEMI
              THEN Then(eat(ts, ps, SEMI), LAMBDA r : Ok(r.ps, statements))
              ELSE Then(statement(ts, ps), LAMBDA r :
                        Ok(r.ps, Append(statements, r.node))),
              LAMBDA q : parse_loop(ts, q.ps, q.node))

parse_loop(ts, ps, statements) ==
    IF ps.current_token.type # EOF
    THEN Then(statement(ts, ps), LAMBDA r :
         parse_loop(ts, r.ps, Append(statements, r.node)))
    ELSE Ok(ps, statements)

parse(ts, ps) ==
    Then(parse_loop(ts, ps, <<>>), LAMBDA r : Ok(r.ps, Block(r.node)))

(***************************************************************************)
(* A client of a bare Lexer: the constructor, then any sequence of         *)
(* get_next_token and peek_token calls.  A call that raises leaves the     *)
(* object as it was at the raise, and the client may go on calling.        *)
(***************************************************************************)
SeqsUpTo(S, n) == UNION {[1..k -> S] : k \in 0..n}

LexAlphabet == {" ", "\n", "1", "a", "#", "\"", "=", "!", ";", "@", "+", "²"}
LexTexts == SeqsUpTo(LexAlphabet, MaxTextLen)

ls_now == [pos |-> pos, current_char |-> current_char]

\* the record of a call: the method, the object before it, what it returned or raised
Call(op, pre, err, ret) ==
    [op |-> op, pre |-> pre, err |-> err, ret |-> ret, expected |-> None, found |-> None,
     n |-> 0]

\* Interpreter(): the class defines no __init__ and no method assigns to self,
\* so an instance is its (empty) set of attributes
Interpreter == [attrs |-> {}]

LexerInit ==
    /\ text \in LexTexts
    /\ pos = Lexer(text).pos
    /\ current_char = Lexer(text).current_char
    /\ current_token = None
    /\ called = Call("Lexer", Lexer(text), NoErr, None)
    /\ pc = "lexer"
    /\ stdout = <<>>
    /\ interpreter = Interpreter

CallGetNextToken ==
    /\ pc = "lexer"
    /\ LET r == get_next_token(text, ls_now)
       IN  /\ pos' = r.ls.pos
           /\ current_char' = r.ls.current_char
           /\ called' = [Call("get_next_token", ls_now, r.err, r.tok)
                             EXCEPT !.found = r.errchar]
    /\ UNCHANGED <<text, current_token, pc, stdout, interpreter>>

CallPeekToken ==
    /\ pc = "lexer"
    /\ LET r == peek_token(text, ls_now)
       IN  /\ pos' = r.ls.pos
           /\ current_char' = r.ls.current_char
           /\ called' = [Call("peek_token", ls_now, r.err, r.tok)
                             EXCEPT !.found = r.errchar]
    /\ UNCHANGED <<text, current_token, pc, stdout, interpreter>>

\* one advance() as the methods of the lexer issue it: each of its call sites
\* follows a test that current_char is a character
CallAdvance ==
    /\ pc = "lexer"
    /\ current_char # None
    /\ LET ls == advance(text, ls_now)
       IN  /\ pos' = ls.pos
           /\ current_char' = ls.current_char
           /\ called' = Call("advance", ls_now, NoErr, None)
    /\ UNCHANGED <<text, current_token, pc, stdout, interpreter>>

LexerNext == CallGetNextToken \/ CallPeekToken \/ CallAdvance

SpecLexer == LexerInit /\ [][LexerNext]_vars

\* the outcome of a lexer call: the token it returns or the error it raises
SameOutcome(r1, r2) ==
    /\ r1.err = r2.err
    /\ r1.err = NoErr => TokEq(r1.tok, r2.tok)

(***************************************************************************)
(* C1: for every lexer state, peek_token returns the token the next        *)
(* get_next_token would return and consumes nothing: after the call pos    *)
(* and current_char are what they were before it, so a get_next_token      *)
(* issued after it has the outcome it would have had without it.           *)
(***************************************************************************)
C1_PeekConsumesNothing ==
    called.op = "peek_token" =>
        /\ pos = called.pre.pos
        /\ current_char = called.pre.current_char
        /\ SameOutcome(get_next_token(text, ls_now),
                       get_next_token(text, called.pre))
        /\ called.err = NoErr =>
               TokEq(called.ret, get_next_token(text, ls_now).tok)

\* what does hold: a peek_token that returns restores the cursor and returns
\* the token the next get_next_token returns
C1_PeekThatReturns ==
    (called.op = "peek_token" /\ called.err = NoErr) =>
        /\ pos = called.pre.pos
        /\ current_char = called.pre.current_char
        /\ get_next_token(text, ls_now).err = NoErr
        /\ TokEq(called.ret, get_next_token(text, ls_now).tok)


(***************************************************************************)
(* The texts handed to a Parser.                                           *)
(***************************************************************************)
RECURSIVE Cat(_)
Cat(ss) == IF ss = <<>> THEN <<>> ELSE Head(ss) \o Cat(Tail(ss))

\* operator chains x1 op1 x2 ... xn: the operand at place i is a name or a number
OperandNames == <<"a", "b", "c", "d", "e", "f", "g">>
OperandDigits == <<"1", "2", "3", "4", "5", "6", "7">>
OpLexemes == {<<"+">>, <<"-">>, <<"*">>, <<"/">>, <<"<">>, <<">">>, <<"=", "=">>, <<"!", "=">>}
OperandAt(i) == {<<OperandNames[i]>>, <<OperandDigits[i]>>}

RECURSIVE Chains(_)
Chains(n) ==
    IF n = 1 THEN OperandAt(1)
    ELSE {Cat(<<c, op, x>>) : c \in Chains(n - 1), op \in OpLexemes, x \in OperandAt(n)}

ChainTexts == UNION {Chains(n) : n \in 1..MaxOperands}

\* a name, then every kind of thing that can follow it
Followers ==
    { <<"=">>, <<"=", "=">>, <<"(">>, <<")">>, <<"+">>, <<"*">>, <<"<">>, <<"}">>, <<>>,
      <<";">>, <<",">>, <<"{">>, <<"b">>, <<"1">>, <<"@">>, <<"\"", "s", "\"">>,
      <<"!", "=">>, <<"!">>, <<"[">>, <<"#", "c">>, <<"\"">> }
Tails == { <<>>, <<"1">>, <<")">>, <<"1", ")">>, <<" ", "b", "=", "2">> }
StatementTexts ==
    {Cat(<<<<"a">>, sp, x, y>>) : sp \in {<<>>, <<" ">>}, x \in Followers, y \in Tails}

\* for (init; cond; incr) { s1 ... sn }
ForInits == { <<"l", "e", "t", " ", "i", "=", "0">>, <<"i", "=", "0">> }
ForConds == { <<"i", "<", "2">>, <<"t", "r", "u", "e">> }
ForIncrs == { <<"i", "=", "i", "+", "1">>, <<"j", "=", "i">> }
BodyStatements ==
    { <<"p", "r", "i", "n", "t", "(", "i", ")">>, <<"x", "=", "i", " ">>, <<"f", "(", ")", " ">>,
      <<"f", "o", "r", "(", "i", "=", "0", ";", "i", ";", "i", "=", "i", ")", "{", "a", "}">> }
Bodies == {Cat(b) : b \in SeqsUpTo(BodyStatements, MaxBody)}
ForTexts ==
    {Cat(<<<<"f", "o", "r", "(">>, i, <<";">>, c, <<";">>, n, <<")", "{">>, b, <<"}">>, tl>>) :
        i \in ForInits, c \in ForConds, n \in ForIncrs, b \in Bodies,
        tl \in {<<>>, <<" ", "x">>}}

\* { s1 ... sn }, closed or not, alone or followed by more
BlockContents ==
    { <<>>,
      <<"a">>,
      <<"a", " ", "b">>,
      <<"x", " ", "=", " ", "1", " ">>,
      <<"i", "f", " ", "(", "a", ")", " ", "{", " ", "b", " ", "}", " ">>,
      <<"a", " ", "+", " ">>,
      <<"w", "h", "i", "l", "e", " ", "(", "a", ")", " ", "{", " ">>,
      <<"{", " ", "a", " ", "}", " ">>,
      <<"p", "r", "i", "n", "t", "(", "1", ")", " ", "f", "(", ")", " ">> }
BlockTexts ==
    {Cat(<<<<"{", " ">>, c, closer, tl>>) :
        c \in BlockContents, closer \in {<<"}">>, <<>>}, tl \in {<<>>, <<" ", "c">>, <<" ", "}">>}}

\* list literals and index expressions
ListTexts ==
    { <<"[", "1", ",", " ", "2", "]">>,
      <<"[", "]">>,
      <<"a", "[", "1", "]">>,
      <<"l", "e", "t", " ", "L", " ", "=", " ", "[", "1", "0", ",", " ", "2", "0", ",", " ", "3", "0", "]", " ", "p", "r", "i", "n", "t", "(", "L", "[", "1", "]", ")">>,
      <<"x", " ", "=", " ", "[", "a", "]">> }

\* a ';' behind a statement of a block
SemiInBlockTexts ==
    { <<"i", "f", " ", "(", "a", ")", " ", "{", " ", "b", ";", " ", "}">>,
      <<"w", "h", "i", "l", "e", " ", "(", "a", ")", " ", "{", " ", "b", ";", " ", "c", " ", "}">>,
      <<"d", "e", "f", " ", "f", "(", ")", " ", "{", " ", "r", "e", "t", "u", "r", "n", " ", "1", ";", " ", "}">>,
      <<"f", "o", "r", " ", "(", "i", " ", "=", " ", "0", ";", " ", "i", " ", "<", " ", "2", ";", " ", "i", " ", "=", " ", "i", " ", "+", " ", "1", ")", " ", "{", " ", "a", ";", " ", "}">>,
      <<"i", "f", " ", "(", "a", ")", " ", "{", " ", "b", " ", "}", " ", "e", "l", "s", "e", " ", "{", " ", "c", ";", " ", "}">>,
      <<"{", " ", "a", ";", " ", "}">>,
      <<"{", " ", "a", ";", " ", "b", " ", "}">> }
\* a ';' behind a top-level statement, and in other places
SemiTexts ==
    SemiInBlockTexts \cup
    { <<"a", ";", " ", "b">>,
      <<"r", "e", "t", "u", "r", "n", " ", "1", ";">>,
      <<"p", "r", "i", "n", "t", "(", "1", ")", ";">>,
      <<"l", "e", "t", " ", "x", " ", "=", " ", "1", ";">>,
      <<"x", " ", "=", " ", "1", ";", " ", "y">>,
      <<";">>,
      <<"i", "f", " ", "(", "a", ")", " ", "{", " ", "b", " ", "}", ";">>,
      <<"f", "(", ")", ";", " ", "g", "(", ")">>,
      <<"(", "a", ";", ")">>,
      <<"f", "(", "a", ";", ")">>,
      <<"f", "o", "r", " ", "(", "i", " ", "=", " ", "0", ";", " ", "i", " ", "<", " ", "2", ";", " ", "i", " ", "=", " ", "i", " ", "+", " ", "1", ";", ")", " ", "{", " ", "}">>,
      <<"f", "o", "r", " ", "(", "i", " ", "=", " ", "0", " ", "i", " ", "<", " ", "2", ";", " ", "i", " ", "=", " ", "i", " ", "+", " ", "1", ")", " ", "{", " ", "a", " ", "}">>,
      <<"x", " ", "=", " ", ";">> }

ParseTexts ==
    ChainTexts \cup StatementTexts \cup ForTexts \cup BlockTexts \cup ListTexts \cup SemiTexts

(***************************************************************************)
(* A client of a Parser: the constructor over a fresh Lexer, then          *)
(* statement() calls or one parse() call.  A raise ends the use of the     *)
(* parser (nothing in the repository catches an error and goes on          *)
(* parsing).                                                               *)
(***************************************************************************)
\* the parser of the state: called.n counts the tokens its lexer has yielded
ps_now ==
    [n |-> called.n, pos |-> pos, current_char |-> current_char,
     current_token |-> current_token]

ParserInit ==
    /\ text \in ParseTexts
    /\ pos = Lexer(text).pos
    /\ current_char = Lexer(text).current_char
    /\ current_token = None
    /\ called = Call("Lexer", Lexer(text), NoErr, None)
    /\ pc = "new"
    /\ stdout = <<>>
    /\ interpreter = Interpreter

\* the call made, on the parser: the state and the record it leaves
Made(op, r) ==
    /\ pos' = r.ps.pos
    /\ current_char' = r.ps.current_char
    /\ current_token' = r.ps.current_token
    /\ called' = [Call(op, ps_now, r.err, r.node) EXCEPT !.expected = r.expected,
                                                        !.found = r.found,
                                                        !.n = r.ps.n]
    /\ pc' = IF r.err = NoErr THEN "parser" ELSE "raised"
    /\ UNCHANGED <<text, stdout, interpreter>>

CallParser == pc = "new" /\ Made("Parser", Parser(TokenStream(text)))

CallStatement == pc = "parser" /\ Made("statement", statement(TokenStream(text), ps_now))

CallParse == pc = "parser" /\ Made("parse", parse(TokenStream(text), ps_now))

CallBlock == pc = "parser" /\ Made("block", block(TokenStream(text), ps_now))

ParserNext == CallParser \/ CallStatement \/ CallParse \/ CallBlock

SpecParser == ParserInit /\ [][ParserNext]_vars


(***************************************************************************)
(* Reading a tree.                                                         *)
(***************************************************************************)
RECURSIVE SameNode(_, _)
\* two nodes are equal trees: same classes, same tokens, same children
SameNode(a, b) ==
    /\ a.kind = b.kind
    /\ CASE a.kind \in {"Num", "Var", "String", "Bool"} -> TokEq(a.token, b.token)
         [] a.kind = "BinOp" ->
                TokEq(a.op, b.op) /\ SameNode(a.left, b.left) /\ SameNode(a.right, b.right)
         [] a.kind \in {"VarDecl", "AssignNode"} ->
                SameNode(a.var_node, b.var_node) /\ SameNode(a.value_node, b.value_node)
         [] a.kind = "Block" ->
                /\ Len(a.statements) = Len(b.statements)
                /\ \A i \in 1..Len(a.statements) : SameNode(a.statements[i], b.statements[i])
         [] a.kind = "IfNode" ->
                /\ SameNode(a.condition, b.condition)
                /\ SameNode(a.then_block, b.then_block)
                /\ SameNode(a.else_block, b.else_block)
         [] a.kind = "WhileNode" ->
                SameNode(a.condition, b.condition) /\ SameNode(a.body, b.body)
         [] a.kind = "PrintNode" -> SameNode(a.expression, b.expression)
         [] a.kind = "ReturnNode" -> SameNode(a.value_node, b.value_node)
         [] a.kind = "FunctionDefNode" ->
                a.name = b.name /\ a.params = b.params /\ SameNode(a.body, b.body)
         [] a.kind = "FunctionCallNode" ->
                /\ a.name = b.name
                /\ Len(a.args) = Len(b.args)
                /\ \A i \in 1..Len(a.args) : SameNode(a.args[i], b.args[i])
         [] OTHER -> TRUE

RECURSIVE Kinds(_)
\* the classes of the nodes of a tree
Kinds(a) ==
    {a.kind} \cup
    CASE a.kind = "BinOp" -> Kinds(a.left) \cup Kinds(a.right)
      [] a.kind \in {"VarDecl", "AssignNode"} -> Kinds(a.var_node) \cup Kinds(a.value_node)
      [] a.kind = "Block" -> UNION {Kinds(a.statements[i]) : i \in 1..Len(a.statements)}
      [] a.kind = "IfNode" ->
             Kinds(a.condition) \cup Kinds(a.then_block) \cup Kinds(a.else_block)
      [] a.kind = "WhileNode" -> Kinds(a.condition) \cup Kinds(a.body)
      [] a.kind = "PrintNode" -> Kinds(a.expression)
      [] a.kind = "ReturnNode" -> Kinds(a.value_node)
      [] a.kind = "FunctionDefNode" -> Kinds(a.body)
      [] a.kind = "FunctionCallNode" -> UNION {Kinds(a.args[i]) : i \in 1..Len(a.args)}
      [] OTHER -> {}

\* the tokens still ahead of a parser that has read n of them, its current
\* token first; <<>> when the lexer raises on the way to EOF
Ahead(ts, n) ==
    IF ts[Len(ts)].err # NoErr THEN <<>>
    ELSE [k \in 1..(Len(ts) - n + 1) |-> ts[n + k - 1].tok]

OperandTypes == {ID, INTEGER}
OperatorTypes == {PLUS, MINUS, MUL, DIV, LT, GT, EQ, NEQ}

\* toks is x1 op1 x2 ... xn EOF, the xi names or numbers
IsChain(toks) ==
    /\ Len(toks) >= 2
    /\ Len(toks) % 2 = 0
    /\ toks[Len(toks)].type = EOF
    /\ \A k \in 1..(Len(toks) - 1) :
           IF k % 2 = 1 THEN toks[k].type \in OperandTypes
           ELSE toks[k].type \in OperatorTypes

Leaf(tok) == IF tok.type = INTEGER THEN Num(tok) ELSE Var(tok)

\* binding power as the grammar's three levels give it
Power(type) ==
    CASE type \in {MUL, DIV} -> 3
      [] type \in {LT, GT, EQ, NEQ} -> 2
      [] type \in {PLUS, MINUS} -> 1

RECURSIVE ByPower(_)
\* the tree of x1 op1 ... xn by binding power: the root is the last operator
\* of the weakest power, its operands the trees of what is left and right of it
ByPower(xs) ==
    IF Len(xs) = 1 THEN Leaf(xs[1])
    ELSE LET ops == {k \in 1..Len(xs) : k % 2 = 0}
             weakest == CHOOSE k \in ops :
                            \A j \in ops : \/ Power(xs[j].type) > Power(xs[k].type)
                                           \/ Power(xs[j].type) = Power(xs[k].type) /\ j <= k
         IN  BinOp(ByPower(SubSeq(xs, 1, weakest - 1)), xs[weakest],
                   ByPower(SubSeq(xs, weakest + 1, Len(xs))))

RECURSIVE LeftNested(_, _)
\* node is the left-nested tree of x1 op1 ... xn: its right child is xn alone,
\* its left child the left-nested tree of x1 ... x(n-1)
LeftNested(node, xs) ==
    IF Len(xs) = 1 THEN SameNode(node, Leaf(xs[1]))
    ELSE /\ node.kind = "BinOp"
         /\ TokEq(node.op, xs[Len(xs) - 1])
         /\ SameNode(node.right, Leaf(xs[Len(xs)]))
         /\ LeftNested(node.left, SubSeq(xs, 1, Len(xs) - 2))

\* a statement() call that returned; what was ahead of it
StatementReturned == called.op = "statement" /\ called.err = NoErr
AheadOfCall == Ahead(TokenStream(text), called.pre.n)
ChainOfCall == SubSeq(AheadOfCall, 1, Len(AheadOfCall) - 1)

(***************************************************************************)
(* C2: in Parser.statement with an ID as current token, the statement is   *)
(* an AssignNode if and only if the token right after the ID is ASSIGN; in *)
(* every other case the ID starts an expression (a bare call or a bare     *)
(* variable is a statement), and ASSIGN is never demanded after it.        *)
(***************************************************************************)
FollowerOfCall == Entry(TokenStream(text), called.pre.n + 1)

\* C2: after an ID, statement() returns an AssignNode iff ASSIGN follows the ID,
\* and otherwise parses an expression
C2_AssignIffAssignFollows ==
    (called.op = "statement" /\ called.pre.current_token.type = ID) =>
        /\ called.err = NoErr =>
               /\ called.ret.kind = "AssignNode" <=> FollowerOfCall.tok.type = ASSIGN
               /\ FollowerOfCall.tok.type # ASSIGN =>
                      called.ret.kind \in {"Var", "FunctionCallNode", "BinOp"}
        /\ (called.err = "ParserError" /\ FollowerOfCall.err = NoErr
              /\ FollowerOfCall.tok.type # ASSIGN) => called.expected # ASSIGN

C2_Witness ==
    /\ StatementReturned
    /\ called.pre.current_token.type = ID
    /\ FollowerOfCall.tok.type = LPAREN
    /\ called.ret.kind = "FunctionCallNode"

(***************************************************************************)
(* C3: binding power is, from strongest to weakest, * /, then < > == !=,   *)
(* then + -: an operator chain over names and numbers parses to the tree   *)
(* its operators' powers give (a + b * c is a + (b * c), a < b * c is      *)
(* a < (b * c), a + b < c is a + (b < c)).                                 *)
(***************************************************************************)
C3_TreeByBindingPower ==
    (StatementReturned /\ IsChain(AheadOfCall)) =>
        SameNode(called.ret, ByPower(ChainOfCall))

C3_Witness ==
    /\ StatementReturned
    /\ IsChain(AheadOfCall)
    /\ Len(ChainOfCall) = 5
    /\ called.ret.kind = "BinOp"
    /\ called.ret.op.type = PLUS
    /\ called.ret.right.kind = "BinOp"
    /\ called.ret.right.op.type = LT

(***************************************************************************)
(* C4: a chain of operators of one level (all + -, all * /, or all         *)
(* comparisons) parses to the left-nested tree: every BinOp has the tree   *)
(* built so far as left child and the next single operand as right child.  *)
(***************************************************************************)
OneLevel(xs) ==
    \A j, k \in {i \in 1..Len(xs) : i % 2 = 0} : Power(xs[j].type) = Power(xs[k].type)

\* C4: a chain of operators of one level parses to the left-nested tree
C4_LeftAssociative ==
    (StatementReturned /\ IsChain(AheadOfCall) /\ OneLevel(ChainOfCall)) =>
        LeftNested(called.ret, ChainOfCall)

C4_Witness ==
    /\ StatementReturned
    /\ IsChain(AheadOfCall)
    /\ Len(ChainOfCall) = 5
    /\ called.ret.kind = "BinOp"
    /\ called.ret.op.type = MINUS
    /\ called.ret.left.kind = "BinOp"
    /\ called.ret.left.op.type = MINUS
    /\ called.ret.right.kind \in {"Var", "Num"}

(***************************************************************************)
(* C5: for (init; cond; incr) { s1 ... sn } parses to                      *)
(* Block[init, WhileNode(cond, Block[s1, ..., sn, incr])]: two statements  *)
(* in the outer block, the body's statements in their order and then incr  *)
(* in the loop's block, and no node of any other class for the loop.       *)
(***************************************************************************)
\* the parts of the for statement ahead of the call, each parsed on its own
ForParts ==
    LET ts == TokenStream(text)
        r1 == eat(ts, called.pre, FOR)
        r2 == eat(ts, r1.ps, LPAREN)
        r3 == IF r2.ps.current_token.type = LET_ THEN var_declaration(ts, r2.ps)
              ELSE assignment(ts, r2.ps)
        r4 == eat(ts, r3.ps, SEMI)
        r5 == expr(ts, r4.ps)
        r6 == eat(ts, r5.ps, SEMI)
        r7 == assignment(ts, r6.ps)
        r8 == eat(ts, r7.ps, RPAREN)
        r9 == block(ts, r8.ps)
    IN  [init |-> r3.node, cond |-> r5.node, incr |-> r7.node, body |-> r9.node.statements]

ForReturned == StatementReturned /\ called.pre.current_token.type = FOR

\* outer is Block[init, WhileNode(cond, Block[body..., incr])] of the parts
DesugaredFrom(outer, parts) ==
    /\ outer.kind = "Block"
    /\ Len(outer.statements) = 2
    /\ SameNode(outer.statements[1], parts.init)
    /\ outer.statements[2].kind = "WhileNode"
    /\ SameNode(outer.statements[2].condition, parts.cond)
    /\ outer.statements[2].body.kind = "Block"
    /\ Len(outer.statements[2].body.statements) = Len(parts.body) + 1
    /\ \A i \in 1..Len(parts.body) :
           SameNode(outer.statements[2].body.statements[i], parts.body[i])
    /\ SameNode(outer.statements[2].body.statements[Len(parts.body) + 1], parts.incr)
    /\ "ForNode" \notin Kinds(outer)

\* C5: the statement returned for a for loop is
\* Block[init, WhileNode(cond, Block[s1, ..., sn, incr])]
C5_ForDesugarsToWhile == ForReturned => DesugaredFrom(called.ret, ForParts)

C5_Witness ==
    /\ ForReturned
    /\ Len(called.ret.statements[2].body.statements) = 3
    /\ called.ret.statements[1].kind = "VarDecl"
    /\ called.ret.statements[2].body.statements[1].kind = "PrintNode"
    /\ called.ret.statements[2].body.statements[3].kind = "AssignNode"


(***************************************************************************)
(* C14: Parser.block collects statements up to the '}' that closes it and  *)
(* returns a Block only after consuming that '}'; when the input ends      *)
(* before it, block raises a ParserError and returns no Block.             *)
(***************************************************************************)
\* '{' less '}' among the first k of toks
Depth(toks, k) ==
    Cardinality({i \in 1..k : toks[i].type = LBRACE})
        - Cardinality({i \in 1..k : toks[i].type = RBRACE})

\* the places of toks where the block opened by toks[1] is closed
Closings(toks) == {k \in 1..Len(toks) : \A j \in 1..k : (Depth(toks, j) = 0) <=> (j = k)}

BlockCalled ==
    /\ called.op = "block"
    /\ called.pre.current_token.type = LBRACE
    /\ AheadOfCall # <<>>

\* C14: a Block is returned exactly past the closing '}'; without one, ParserError
C14_BlockNeedsItsClosingBrace ==
    BlockCalled =>
        /\ called.err = NoErr =>
               /\ called.ret.kind = "Block"
               /\ Closings(AheadOfCall) # {}
               /\ \A k \in Closings(AheadOfCall) : called.n = called.pre.n + k
               /\ Entry(TokenStream(text), called.n - 1).tok.type = RBRACE
        /\ Closings(AheadOfCall) = {} =>
               /\ called.err = "ParserError"
               /\ called.ret = None

\* the input ended inside the block: '}' was expected, EOF found
C14_Witness ==
    /\ BlockCalled
    /\ called.err = "ParserError"
    /\ called.expected = RBRACE
    /\ called.found.type = EOF
    /\ Len(AheadOfCall) >= 3

(***************************************************************************)
(* C15: the first token that does not fit the grammar makes Parser.parse   *)
(* raise a ParserError carrying the expected token kind and the actual     *)
(* token; no AST is returned and no further token is read from the lexer.  *)
(***************************************************************************)
ParseRaised == called.op = "parse" /\ called.err = "ParserError"

\* the parser stopped on the token it raised for: nothing returned, nothing read past it
AbortedAtMismatch ==
    /\ called.ret = None
    /\ pc = "raised"
    /\ TokEq(current_token, called.found)
    /\ TokEq(current_token, Entry(TokenStream(text), called.n).tok)
    /\ pos = Entry(TokenStream(text), called.n).ls.pos

\* C15: a ParserError of parse names the expected kind and the actual token, and aborts
C15_ErrorCarriesExpectedAndActual ==
    ParseRaised =>
        /\ called.expected # None
        /\ AbortedAtMismatch

\* what does hold of the source: the parse is abandoned at the offending token
ParseAbortsAtMismatch == ParseRaised => AbortedAtMismatch

(***************************************************************************)
(* C18: a list literal [e1, ..., en] parses to a ListNode and              *)
(* target[index] to an IndexNode, both reachable from Parser.parse for     *)
(* source text that contains them.                                         *)
(***************************************************************************)
\* C18: text with a list literal or an index goes through Parser and parse to such a node
C18_ListsAndIndexingParse ==
    (text \in ListTexts /\ called.op \in {"Parser", "parse"}) =>
        /\ called.err = NoErr
        /\ called.op = "parse" =>
               /\ called.ret.kind = "Block"
               /\ Kinds(called.ret) \cap {"ListNode", "IndexNode"} # {}

(***************************************************************************)
(* The Interpreter.  A Python value is an int, a float or None; a float is *)
(* the quotient it stands for, the fraction num/den in lowest terms.       *)
(* visit returns the value or the exception raised, and the calls made on  *)
(* the way in the order they were entered.                                 *)
(***************************************************************************)
IntVal(n) == [ty |-> "int", num |-> n, den |-> 1]
NoneVal == [ty |-> "NoneType", num |-> 0, den |-> 1]
\* what a call that raised has for a value
NoValue == [ty |-> "no value", num |-> 0, den |-> 1]

Abs(n) == IF n < 0 THEN -n ELSE n

RECURSIVE gcd(_, _)
gcd(a, b) == IF b = 0 THEN a ELSE gcd(b, a % b)

FloatVal(num, den) ==
    LET g == gcd(Abs(num), Abs(den))
        sign == IF den < 0 THEN -1 ELSE 1
    IN  [ty |-> "float", num |-> sign * (num \div g), den |-> sign * (den \div g)]

\* the result of int/float arithmetic: a float as soon as one operand is
Arith(l, r, num, den) ==
    IF l.ty = "float" \/ r.ty = "float" THEN FloatVal(num, den) ELSE IntVal(num)

Event(handler, node) == [handler |-> handler, node |-> node]
Value(val, trace) == [val |-> val, err |-> NoErr, msg |-> <<>>, trace |-> trace]
Throw(err, msg, trace) == [val |-> NoValue, err |-> err, msg |-> msg, trace |-> trace]

\* Python's refusal of an arithmetic operator on None
TypeError(sym, l, r, trace) ==
    Throw("TypeError",
          <<"unsupported operand type(s) for ", sym, ": '", l.ty, "' and '", r.ty, "'">>,
          trace)

\* divide gone wrong: floor division
divide_floor(l, r) ==
    Arith(l, r, (l.num * r.den) \div (l.den * r.num), 1)

\* left_val / right_val on numbers: true division, the result is a float
divide(l, r) == FloatVal(l.num * r.den, l.den * r.num)

\* the if/elif chain of visit_BinOp on the two operand values
operate(op_type, l, r, trace) ==
    LET untyped == l.ty = "NoneType" \/ r.ty = "NoneType"
    IN  IF op_type = PLUS THEN
            IF untyped THEN TypeError("+", l, r, trace)
            ELSE Value(Arith(l, r, l.num * r.den + r.num * l.den, l.den * r.den), trace)
        ELSE IF op_type = MINUS THEN
            IF untyped THEN TypeError("-", l, r, trace)
            ELSE Value(Arith(l, r, l.num * r.den - r.num * l.den, l.den * r.den), trace)
        ELSE IF op_type = MUL THEN
            IF untyped THEN TypeError("*", l, r, trace)
            ELSE Value(Arith(l, r, l.num * r.num, l.den * r.den), trace)
        ELSE IF op_type = DIV THEN
            IF r.ty # "NoneType" /\ r.num = 0
            THEN Throw("Exception", <<"Error: Division by zero">>, trace)
            ELSE IF untyped THEN TypeError("/", l, r, trace)
            ELSE Value(divide(l, r), trace)
        ELSE Value(NoneVal, trace)

\* raise Exception(f'No visit_{type(node).__name__} method')
generic_visit(node) ==
    Throw("Exception", <<"No visit_", node.kind, " method">>,
          <<Event("generic_visit", node)>>)

visit_Num(node) == Value(IntVal(node.value), <<Event("visit_Num", node)>>)

RECURSIVE visit(_)
visit_BinOp(node) ==
    LET entered == <<Event("visit_BinOp", node)>>
        left == visit(node.left)
    IN  IF left.err # NoErr THEN Throw(left.err, left.msg, entered \o left.trace)
        ELSE LET right == visit(node.right)
                 trace == entered \o left.trace \o right.trace
             IN  IF right.err # NoErr THEN Throw(right.err, right.msg, trace)
                 ELSE operate(node.op.type, left.val, right.val, trace)

\* getattr(self, f'visit_{type(node).__name__}', self.generic_visit)(node)
visit(node) ==
    IF node.kind = "BinOp" THEN visit_BinOp(node)
    ELSE IF node.kind = "Num" THEN visit_Num(node)
    ELSE generic_visit(node)


(***************************************************************************)
(* A client of the Interpreter: a Parser over a text, one expr() or        *)
(* parse() call, and visit of the node it returned.                        *)
(***************************************************************************)
\* largest integer literal of the generated expressions
MaxNum == 4

RECURSIVE NumText(_)
\* the decimal literal of n
NumText(n) ==
    IF n < 10 THEN <<Digits[n + 1]>> ELSE NumText(n \div 10) \o <<Digits[(n % 10) + 1]>>

NumTexts == {NumText(n) : n \in 0..MaxNum}
ArithLexemes == {<<"+">>, <<"-">>, <<"*">>, <<"/">>, <<"<">>}
BinaryTexts == {Cat(<<a, <<" ">>, op, <<" ">>, b>>) : a \in NumTexts, op \in ArithLexemes, b \in NumTexts}
TernaryTexts ==
    {Cat(<<a, op1, b, op2, c>>) :
        a \in NumTexts, op1 \in {<<"/">>, <<"-">>}, b \in NumTexts,
        op2 \in {<<"/">>, <<"*">>}, c \in NumTexts}
MixedTexts ==
    { <<"1", " ", "+", " ", "\"", "a", "\"">>,
      <<"\"", "a", "\"", " ", "+", " ", "1">>,
      <<"\"", "a", "\"", " ", "+", " ", "\"", "b", "\"">>,
      <<"\"", "a", "\"">>,
      <<"(", "1", " ", "<", " ", "2", ")", " ", "+", " ", "1">>,
      <<"1", " ", "/", " ", "(", "2", " ", "-", " ", "2", ")">>,
      <<"7", " ", "/", " ", "2", " ", "/", " ", "0">>,
      <<"(", "1", " ", "<", " ", "2", ")", " ", "/", " ", "0">>,
      <<"1", " ", "/", " ", "(", "1", " ", "<", " ", "2", ")">>,
      <<"x", " ", "/", " ", "0">>,
      <<"1", " ", "/", " ", "2", " ", "+", " ", "1", " ", "/", " ", "2">>,
      <<"6", " ", "/", " ", "(", "1", " ", "-", " ", "3", ")">> }
ProgramTexts ==
    { <<"l", "e", "t", " ", "x", " ", "=", " ", "1">>,
      <<"x">>,
      <<"x", " ", "=", " ", "1">>,
      <<"p", "r", "i", "n", "t", "(", "1", ")">>,
      <<"i", "f", " ", "(", "t", "r", "u", "e", ")", " ", "{", " ", "1", " ", "}">>,
      <<"i", "f", " ", "(", "1", " ", "<", " ", "2", ")", " ", "{", " ", "x", " ", "=", " ", "1", " ", "}", " ", "e", "l", "s", "e", " ", "{", " ", "p", "r", "i", "n", "t", "(", "x", ")", " ", "}">>,
      <<"w", "h", "i", "l", "e", " ", "(", "f", "a", "l", "s", "e", ")", " ", "{", " ", "1", " ", "}">>,
      <<"d", "e", "f", " ", "f", "(", ")", " ", "{", " ", "r", "e", "t", "u", "r", "n", " ", "1", " ", "}", " ", "f", "(", ")">>,
      <<"d", "e", "f", " ", "f", "(", "a", ")", " ", "{", " ", "}", " ", "f", "(", "2", ")">>,
      <<"\"", "s", "\"">>,
      <<"t", "r", "u", "e">>,
      <<"1">>,
      <<"1", " ", "+", " ", "2">>,
      <<>>,
      <<"f", "o", "r", " ", "(", "i", " ", "=", " ", "0", ";", " ", "i", " ", "<", " ", "2", ";", " ", "i", " ", "=", " ", "i", " ", "+", " ", "1", ")", " ", "{", " ", "p", "r", "i", "n", "t", "(", "i", ")", " ", "}">> }
\* programs over scopes, assignment and return
\* let x = 1 def f() { let x = 2 return x } print(f()) print(x)
ShadowProgram ==
    <<"l", "e", "t", " ", "x", " ", "=", " ", "1", " ", "d", "e", "f", " ",
      "f", "(", ")", " ", "{", " ", "l", "e", "t", " ", "x", " ", "=", " ",
      "2", " ", "r", "e", "t", "u", "r", "n", " ", "x", " ", "}", " ", "p",
      "r", "i", "n", "t", "(", "f", "(", ")", ")", " ", "p", "r", "i", "n",
      "t", "(", "x", ")">>
\* let x = 1 def f() { x = 2 } f() print(x)
AssignOuterProgram ==
    <<"l", "e", "t", " ", "x", " ", "=", " ", "1", " ", "d", "e", "f", " ",
      "f", "(", ")", " ", "{", " ", "x", " ", "=", " ", "2", " ", "}", " ",
      "f", "(", ")", " ", "p", "r", "i", "n", "t", "(", "x", ")">>
\* y = 1
AssignUndefinedProgram ==
    <<"y", " ", "=", " ", "1">>
\* def f() { while (true) { if (true) { return 1 } print(9) } print(8) } print(f())
EarlyReturnProgram ==
    <<"d", "e", "f", " ", "f", "(", ")", " ", "{", " ", "w", "h", "i", "l",
      "e", " ", "(", "t", "r", "u", "e", ")", " ", "{", " ", "i", "f", " ",
      "(", "t", "r", "u", "e", ")", " ", "{", " ", "r", "e", "t", "u", "r",
      "n", " ", "1", " ", "}", " ", "p", "r", "i", "n", "t", "(", "9", ")",
      " ", "}", " ", "p", "r", "i", "n", "t", "(", "8", ")", " ", "}", " ",
      "p", "r", "i", "n", "t", "(", "f", "(", ")", ")">>
ScopeTexts == {ShadowProgram, AssignOuterProgram, AssignUndefinedProgram, EarlyReturnProgram}

EvalTexts ==
    BinaryTexts \cup TernaryTexts \cup MixedTexts \cup ProgramTexts \cup ScopeTexts

EvalInit ==
    /\ text \in EvalTexts
    /\ pos = Lexer(text).pos
    /\ current_char = Lexer(text).current_char
    /\ current_token = None
    /\ called = Call("Lexer", Lexer(text), NoErr, None)
    /\ pc = "new"
    /\ stdout = <<>>
    /\ interpreter = Interpreter

\* ast = parser.expr()
CallExpr == pc = "parser" /\ Made("expr", expr(TokenStream(text), ps_now))

\* interpreter.visit(ast) on the node the last parser call returned
CallVisit ==
    /\ pc = "parser"
    /\ called.op \in {"expr", "parse"}
    /\ LET r == visit(called.ret)
       IN  called' = [op |-> "visit", via |-> called.op, node |-> called.ret, err |-> r.err,
                      msg |-> r.msg, ret |-> r.val, trace |-> r.trace, n |-> called.n]
    /\ pc' = "visited"
    /\ UNCHANGED <<text, pos, current_char, current_token, stdout, interpreter>>

EvalNext == CallParser \/ CallExpr \/ CallParse \/ CallVisit

SpecEval == EvalInit /\ [][EvalNext]_vars


(***************************************************************************)
(* C6: visiting the Block that Parser.parse returned for a program goes    *)
(* through a specific handler at every node: no call on the way is a call  *)
(* of generic_visit, whose only effect is the 'No visit_<Kind> method'     *)
(* failure.                                                                *)
(***************************************************************************)
C6_EveryNodeHasAHandler ==
    (called.op = "visit" /\ called.via = "parse") =>
        /\ \A i \in 1..Len(called.trace) : called.trace[i].handler # "generic_visit"
        /\ called.msg # <<"No visit_", called.node.kind, " method">>

(***************************************************************************)
(* C7: visiting BinOp(a, '/', b) for integer literals a and b visits a,    *)
(* then b, and only then looks at the divisor: with b = 0 the visit raises *)
(* the division-by-zero error, has no value and writes no output; with     *)
(* b # 0 its value is the quotient of a by b.                              *)
(***************************************************************************)
DivOfInts ==
    /\ called.op = "visit"
    /\ called.node.kind = "BinOp"
    /\ called.node.op.type = DIV
    /\ called.node.left.kind = "Num"
    /\ called.node.right.kind = "Num"

\* C7: a / b visits a, then b, then fails on b = 0 and else yields the quotient
C7_DivisionChecksZeroAfterOperands ==
    DivOfInts =>
        LET a == called.node.left.value
            b == called.node.right.value
        IN  /\ Len(called.trace) = 3
            /\ called.trace[1].handler = "visit_BinOp"
            /\ called.trace[2].handler = "visit_Num"
            /\ SameNode(called.trace[2].node, called.node.left)
            /\ called.trace[3].handler = "visit_Num"
            /\ SameNode(called.trace[3].node, called.node.right)
            /\ IF b = 0
               THEN /\ called.err = "Exception"
                    /\ called.msg = <<"Error: Division by zero">>
                    /\ called.ret = NoValue
                    /\ stdout = <<>>
               ELSE /\ called.err = NoErr
                    /\ called.ret.ty \in {"int", "float"}
                    /\ called.ret.den # 0
                    /\ called.ret.num * b = a * called.ret.den

C7_Witness ==
    /\ DivOfInts
    /\ called.node.left.value = 3
    /\ called.node.right.value = 0
    /\ called.err = "Exception"
    /\ Len(called.trace) = 3

(***************************************************************************)
(* C8: '+' with a String on either side yields the concatenation of the    *)
(* textual forms of the two operands, left one first (1 + "a" is "1a",     *)
(* "a" + 1 is "a1"), and never ends in an error.                           *)
(***************************************************************************)
PlusWithString ==
    /\ called.op = "visit"
    /\ called.node.kind = "BinOp"
    /\ called.node.op.type = PLUS
    /\ {called.node.left.kind, called.node.right.kind} \subseteq {"Num", "String"}
    /\ "String" \in {called.node.left.kind, called.node.right.kind}

\* the textual form of a literal operand
TextForm(node) == IF node.kind = "Num" THEN NumText(node.value) ELSE node.value

\* C8: '+' with a String operand yields the two textual forms concatenated
C8_PlusConcatenatesWithString ==
    PlusWithString =>
        /\ called.err = NoErr
        /\ called.ret.ty = "str"
        /\ called.ret.text = TextForm(called.node.left) \o TextForm(called.node.right)


(***************************************************************************)
(* C11: let binds in the topmost frame and leaves outer frames alone: the  *)
(* program `let x = 1 def f() { let x = 2 return x } print(f()) print(x)`  *)
(* runs to its end and prints 2, then 1.                                   *)
(***************************************************************************)
C11_LetShadowsWithoutMutating ==
    (called.op = "visit" /\ called.via = "parse" /\ text = ShadowProgram) =>
        /\ called.err = NoErr
        /\ stdout = << <<"2">>, <<"1">> >>

(***************************************************************************)
(* C12: assignment changes the nearest frame that defines the name:        *)
(* `let x = 1 def f() { x = 2 } f() print(x)` prints 2; assigning a name   *)
(* no frame defines fails with a NameError and binds nothing.              *)
(***************************************************************************)
C12_AssignFindsDefiningFrame ==
    (called.op = "visit" /\ called.via = "parse") =>
        /\ text = AssignOuterProgram =>
               called.err = NoErr /\ stdout = << <<"2">> >>
        /\ text = AssignUndefinedProgram =>
               called.err = "NameError" /\ interpreter = Interpreter

(***************************************************************************)
(* C13: a return inside nested blocks, if branches and while bodies ends   *)
(* the function at once: in `def f() { while (true) { if (true) {          *)
(* return 1 } print(9) } print(8) } print(f())` neither print(9) nor       *)
(* print(8) runs, the loop does not iterate again, and f() is 1.           *)
(***************************************************************************)
C13_ReturnUnwindsToTheCall ==
    (called.op = "visit" /\ called.via = "parse" /\ text = EarlyReturnProgram) =>
        /\ called.err = NoErr
        /\ stdout = << <<"1">> >>

(***************************************************************************)
(* The driver (src/main.py): execute and the read-eval-print loop.  stdout *)
(* is the sequence of lines written by print.                              *)
(***************************************************************************)
\* str(e) for the exceptions of the lexer and the parser
Message(r) ==
    IF r.err = "LexerError" THEN <<"Invalid character: '", r.found, "'">>
    ELSE IF r.err = "NameError" THEN <<"name '", r.found, "' is not defined">>
    ELSE IF r.err = "ValueError"
    THEN <<"invalid literal for int() with base 10: '", r.found, "'">>
    ELSE IF r.expected # None
    THEN <<"Expected token ", r.expected, ", but found ", r.found.type>>
    ELSE <<"Invalid syntax: Unexpected token ", r.found>>

\* what an execute call did: its return value, the exception it caught,
\* whether one left it uncaught, the lines it printed, the instance after it
Executed(ret, err, escaped, out, interp) ==
    [ret |-> ret, err |-> err, escaped |-> escaped, out |-> out, interpreter |-> interp]

\* parser = Parser(lexer); ast = parser.parse()
ParseStream(ts) == Then(Parser(ts), LAMBDA p : parse(ts, p.ps))
ParseText(t) == ParseStream(TokenStream(t))

\* result = interpreter.visit(ast), or the exception raised before it
Visited(parsed) ==
    IF parsed.err # NoErr
    THEN Throw(parsed.err, Message(parsed), <<>>)
    ELSE visit(parsed.node)

\* the body of execute's try statement
try_body(t) == Visited(ParseText(t))

\* except_clauses gone wrong: only the syntax errors are caught
except_syntax_only(e, interp) ==
    IF e.err = NoErr THEN Executed(e.val, NoErr, FALSE, <<>>, interp)
    ELSE IF e.err \in {"LexerError", "ParserError"}
    THEN Executed(NoneVal, e.err, FALSE, <<<<"Syntax Error: ">> \o e.msg>>, interp)
    ELSE Executed(NoValue, e.err, TRUE, <<>>, interp)

\* return result, or the except clause that matches the exception e
except_clauses(e, interp) ==
    IF e.err = NoErr THEN Executed(e.val, NoErr, FALSE, <<>>, interp)
    ELSE IF e.err \in {"LexerError", "ParserError"}
    THEN Executed(NoneVal, e.err, FALSE, <<<<"Syntax Error: ">> \o e.msg>>, interp)
    ELSE IF e.err = "NameError"
    THEN Executed(NoneVal, e.err, FALSE, <<<<"Runtime Error: ">> \o e.msg>>, interp)
    ELSE Executed(NoneVal, e.err, FALSE, <<<<"Error: ">> \o e.msg>>, interp)

execute(t, interp) == except_clauses(try_body(t), interp)

\* str.count, str.strip, str.lower
count(t, c) == Cardinality({i \in 1..Len(t) : t[i] = c})

RECURSIVE lstrip(_)
lstrip(t) == IF t # <<>> /\ isspace(Head(t)) THEN lstrip(Tail(t)) ELSE t

RECURSIVE rstrip(_)
rstrip(t) ==
    IF t # <<>> /\ isspace(t[Len(t)]) THEN rstrip(SubSeq(t, 1, Len(t) - 1)) ELSE t

strip(t) == rstrip(lstrip(t))

Uppercase ==
    <<"A", "B", "C", "D", "E", "F", "G", "H", "I", "J", "K", "L", "M",
      "N", "O", "P", "Q", "R", "S", "T", "U", "V", "W", "X", "Y", "Z">>
Lowercase ==
    <<"a", "b", "c", "d", "e", "f", "g", "h", "i", "j", "k", "l", "m",
      "n", "o", "p", "q", "r", "s", "t", "u", "v", "w", "x", "y", "z">>

lower(t) ==
    [i \in 1..Len(t) |->
        IF \E k \in 1..26 : Uppercase[k] = t[i]
        THEN Lowercase[CHOOSE k \in 1..26 : Uppercase[k] = t[i]]
        ELSE t[i]]

\* most units executed by one repl; most continuation lines of one unit
MaxUnits == 2
MaxLines == 2

\* what the user may type at a prompt
InputLines ==
    { <<"1", " ", "+", " ", "2">>,
      <<"7", " ", "/", " ", "0">>,
      <<"@">>,
      <<"l", "e", "t", " ", "x", " ", "=">>,
      <<"[">>,
      <<>>,
      <<"e", "x", "i", "t">>,
      <<" ", "E", "x", "i", "t", " ">>,
      <<"d", "e", "f", " ", "f", "(", ")", " ", "{">>,
      <<"r", "e", "t", "u", "r", "n", " ", "1", " ", "}">>,
      <<"}">>,
      <<"f", "(", ")">>,
      <<"d", "e", "f", " ", "f", "(", ")", " ", "{", " ", "r", "e", "t", "u", "r", "n", " ", "1", " ", "}", " ", "f", "(", ")">>,
      <<"d", "e", "f", " ", "f", "(", ")", " ", "{", " ", "}", " ", "f", "(", ")">>,
      <<"l", "e", "t", " ", "x", " ", "=", " ", "1">>,
      <<"1", " ", "+", " ", "\"", "a", "\"">>,
      <<"\"", "a">>,
      <<"i", "f", " ", "(", "x", ")", " ", "{">> }

\* the loop's last step: the unit executed (op "execute") or only read
Step(op, t, e, before, units, more) ==
    [op |-> op, text |-> t, err |-> e.err, escaped |-> e.escaped, ret |-> e.ret,
     before |-> before, units |-> units, lines |-> more]

Nothing == Executed(NoneVal, NoErr, FALSE, <<>>, Interpreter)

ReplInit ==
    /\ text = <<>>
    /\ pos = 0
    /\ current_char = None
    /\ current_token = None
    /\ called = Step("repl", <<>>, Nothing, Interpreter, 0, 0)
    /\ pc = "lang> "
    /\ stdout = << <<"Welcome to the MiniLang REPL! Type 'exit' or press Ctrl+C to quit.">> >>
    /\ interpreter = Interpreter

\* the loop body from `if not text` on, for the unit t that was read
Process(t) ==
    /\ text' = t
    /\ UNCHANGED <<pos, current_char, current_token>>
    /\ IF t = <<>>
       THEN /\ called' = Step("input", t, Nothing, interpreter, called.units, 0)
            /\ pc' = "lang> "
            /\ UNCHANGED <<stdout, interpreter>>
       ELSE IF lower(strip(t)) = <<"e", "x", "i", "t">>
       THEN /\ called' = Step("input", t, Nothing, interpreter, called.units, 0)
            /\ pc' = "exited"
            /\ UNCHANGED <<stdout, interpreter>>
       ELSE \E e \in {execute(t, interpreter)} :
                /\ called' = Step("execute", t, e, interpreter, called.units + 1, 0)
                /\ interpreter' = e.interpreter
                /\ stdout' = stdout \o e.out \o
                             (IF ~e.escaped /\ e.ret.ty # "NoneType"
                              THEN << <<"str", e.ret>> >> ELSE <<>>)
                /\ pc' = IF e.escaped THEN "crashed" ELSE "lang> "

\* more lines are asked for while the unit has more '{' than '}'
Read(t, more) ==
    IF count(t, "{") > count(t, "}")
    THEN /\ text' = t
         /\ called' = Step("input", t, Nothing, interpreter, called.units, more)
         /\ pc' = "... "
         /\ UNCHANGED <<pos, current_char, current_token, stdout, interpreter>>
    ELSE Process(t)

\* text = input('lang> ')
ReadLine ==
    /\ pc = "lang> "
    /\ called.units < MaxUnits
    /\ \E line \in InputLines : Read(line, 0)

\* line = input('... '); text += " " + line
ReadMore ==
    /\ pc = "... "
    /\ called.lines < MaxLines
    /\ \E line \in InputLines : Read(text \o <<" ">> \o line, called.lines + 1)

\* EOFError or KeyboardInterrupt at a prompt
Interrupt ==
    /\ pc \in {"lang> ", "... "}
    /\ stdout' = Append(stdout, <<"\nExiting.">>)
    /\ pc' = "exited"
    /\ UNCHANGED <<text, pos, current_char, current_token, called, interpreter>>

ReplNext == ReadLine \/ ReadMore \/ Interrupt

SpecRepl == ReplInit /\ [][ReplNext]_vars

(***************************************************************************)
(* C9: a unit that ends in a lexer, parser or runtime error does not leave *)
(* execute as an exception: the loop is back at its prompt for the next    *)
(* unit, with the same Interpreter instance, which is as it was before the *)
(* unit.                                                                   *)
(***************************************************************************)
C9_ErrorsStayInExecute ==
    (called.op = "execute" /\ called.err # NoErr) =>
        /\ ~called.escaped
        /\ pc # "crashed"
        /\ interpreter = called.before

\* a unit accepted and failed with a runtime error after an earlier failed unit
C9_Witness ==
    /\ called.op = "execute"
    /\ called.units = 2
    /\ called.err = "Exception"
    /\ Len(stdout) = 3
    /\ pc = "lang> "

(***************************************************************************)
(* C10: a unit that defines a function and calls it runs to its end, the   *)
(* call yielding its result with the frame it pushed popped again, so that *)
(* the statement completes and leaves the interpreter with the global      *)
(* frame alone.                                                            *)
(***************************************************************************)
DefinesAndCalls(parsed) ==
    /\ parsed.err = NoErr
    /\ {"FunctionDefNode", "FunctionCallNode"} \subseteq Kinds(parsed.node)

UnitCallsUserFunction == called.op = "execute" /\ DefinesAndCalls(ParseText(called.text))

\* C10: a unit that calls a user function completes, with the scope chain back
\* at the global frame alone
C10_CallsCompleteAtGlobalFrame ==
    UnitCallsUserFunction =>
        /\ called.err = NoErr
        /\ "scopes" \in interpreter.attrs


(***************************************************************************)
(* C16: get_next_token raises a LexerError and returns no token whenever   *)
(* the next token starts with a character outside the alphabet (an         *)
(* InvalidCharacter error, also for a '!' without '=') or is a string      *)
(* whose closing '"' is missing (an UnterminatedString error); the         *)
(* offending character is never skipped.                                   *)
(***************************************************************************)
\* where the next token starts: the cursor past blanks and comments
RECURSIVE TokenStart(_, _)
TokenStart(t, ls) ==
    IF ls.current_char # None /\ isspace(ls.current_char)
    THEN TokenStart(t, skip_whitespace(t, ls))
    ELSE IF ls.current_char = "#" THEN TokenStart(t, skip_comment(t, ls))
    ELSE ls

\* the characters a token of the language can start with
StartsAToken(c) ==
    \/ \E i \in 1..10 : Digits[i] = c
    \/ c \in Letters
    \/ c \in {"\"", "=", "!", "<", ">", "+", "-", "*", "/",
              "(", ")", "{", "}", "[", "]", ",", ";"}

Unrecognized(t, ls) ==
    /\ ls.current_char # None
    /\ \/ ~StartsAToken(ls.current_char)
       \/ ls.current_char = "!" /\ peek(t, ls) # "="

Unterminated(t, ls) ==
    /\ ls.current_char = "\""
    /\ \A i \in (ls.pos + 2)..Len(t) : t[i] # "\""

\* the error reads "Invalid character: '...'"
ReportsInvalidCharacter == Message(called)[1] = "Invalid character: '"

\* C16: an unrecognized character and an unterminated string each raise their LexerError
C16_FatalLexerErrors ==
    called.op = "get_next_token" =>
        /\ Unrecognized(text, TokenStart(text, called.pre)) =>
               /\ called.err = "LexerError"
               /\ called.ret = None
               /\ ReportsInvalidCharacter
               /\ called.found = TokenStart(text, called.pre).current_char
               /\ ls_now = TokenStart(text, called.pre)
        /\ Unterminated(text, TokenStart(text, called.pre)) =>
               /\ called.err = "LexerError"
               /\ called.ret = None
               /\ ~ReportsInvalidCharacter

\* what does hold: in both cases the call raises and returns no token, and
\* after a LexerError a further call yields no token of the text either
C16_RaisesAndStays ==
    (/\ called.op = "get_next_token"
     /\ \/ Unrecognized(text, TokenStart(text, called.pre))
        \/ Unterminated(text, TokenStart(text, called.pre))) =>
        /\ called.err \in {"LexerError", "ValueError"}
        /\ called.ret = None
        /\ called.err = "LexerError" =>
               \/ get_next_token(text, ls_now).err = "LexerError"
               \/ get_next_token(text, ls_now).tok.type = EOF


(***************************************************************************)
(* A client of a bare Lexer over texts of punctuation, blanks and names.   *)
(***************************************************************************)
PunctAlphabet == {"(", ")", "{", "}", "[", "]", ",", ";", " ", "a"}
PunctTexts == SeqsUpTo(PunctAlphabet, MaxTextLen)

PunctInit ==
    /\ text \in PunctTexts
    /\ pos = Lexer(text).pos
    /\ current_char = Lexer(text).current_char
    /\ current_token = None
    /\ called = Call("Lexer", Lexer(text), NoErr, None)
    /\ pc = "lexer"
    /\ stdout = <<>>
    /\ interpreter = Interpreter

SpecPunct == PunctInit /\ [][LexerNext]_vars

(***************************************************************************)
(* C17: each of ( ) { } [ ] , ; is tokenized by get_next_token as its own  *)
(* one-character token of the matching kind, advancing the position by     *)
(* exactly one character, and none of them ends in an error.               *)
(***************************************************************************)
PunctuationKind ==
    [c \in {"(", ")", "{", "}", "[", "]", ",", ";"} |->
        CASE c = "(" -> LPAREN [] c = ")" -> RPAREN
          [] c = "{" -> LBRACE [] c = "}" -> RBRACE
          [] c = "[" -> LBRACKET [] c = "]" -> RBRACKET
          [] c = "," -> COMMA [] c = ";" -> SEMI]

\* get_next_token found a punctuation character at the start of the next token
PunctuationCalled ==
    /\ called.op = "get_next_token"
    /\ TokenStart(text, called.pre).current_char \in DOMAIN PunctuationKind

\* C17: every punctuation character yields its token and moves the cursor by one
C17_PunctuationTokens ==
    PunctuationCalled =>
        /\ called.err = NoErr
        /\ TokEq(called.ret,
                 Token(PunctuationKind[TokenStart(text, called.pre).current_char],
                       <<TokenStart(text, called.pre).current_char>>))
        /\ pos = TokenStart(text, called.pre).pos + 1

\* what does hold: the six punctuation characters whose kinds lexer.py imports
C17_ImportedPunctuation ==
    (PunctuationCalled /\ TokenStart(text, called.pre).current_char \notin {"[", "]"}) =>
        /\ called.err = NoErr
        /\ TokEq(called.ret,
                 Token(PunctuationKind[TokenStart(text, called.pre).current_char],
                       <<TokenStart(text, called.pre).current_char>>))
        /\ pos = TokenStart(text, called.pre).pos + 1


(***************************************************************************)
(* C20: after the constructor and after every advance, get_next_token or   *)
(* peek_token that returns, 0 <= pos <= len(text), current_char is         *)
(* text[pos] when pos < len(text), and is None exactly when                *)
(* pos = len(text).                                                        *)
(***************************************************************************)
\* text[pos] of the source is t[pos + 1] here
CursorOnText(t, ls) ==
    /\ 0 <= ls.pos /\ ls.pos <= Len(t)
    /\ ls.pos < Len(t) => ls.current_char = t[ls.pos + 1]
    /\ (ls.current_char = None) <=> (ls.pos = Len(t))

MaxRun == 2     \* characters in an inserted run of blanks, or in the body of an inserted comment

InsertAlphabet == {"a", "1", "=", "\"", "#", "\n"}
InsertTexts == SeqsUpTo(InsertAlphabet, MaxTextLen)

WhitespaceRuns == SeqsUpTo({" ", "\n"}, MaxRun) \ {<<>>}
CommentBodies == SeqsUpTo({"c", "\""}, MaxRun)
\* a comment with the newline that ends its line
CommentLines == {<<"#">> \o b \o <<"\n">> : b \in CommentBodies}
\* a comment that the end of the text ends
LastComments == {<<"#">> \o b : b \in CommentBodies}

\* the tokens of t that get_next_token returns before the end of input
TokensOf(t) ==
    {k \in 1..Len(TokenStream(t)) :
        TokenStream(t)[k].err = NoErr /\ TokenStream(t)[k].tok.type # EOF}

\* the places between two tokens: right behind a token, and where the next starts
Boundaries(t) ==
    {TokenStream(t)[k].ls.pos : k \in TokensOf(t)}
        \cup {TokenStart(t, TokenStream(t)[k].ls).pos : k \in TokensOf(t)}

Inserted(t, p, w) == SubSeq(t, 1, p) \o w \o SubSeq(t, p + 1, Len(t))

InsertInit ==
    /\ text \in InsertTexts
    /\ pos = Lexer(text).pos
    /\ current_char = Lexer(text).current_char
    /\ current_token = None
    /\ called = Call("Lexer", Lexer(text), NoErr, None)
    /\ pc = "lexer"
    /\ stdout = <<>>
    /\ interpreter = Interpreter

\* Lexer(text with w put in at p)
Reopen(p, w) ==
    /\ pc = "lexer"
    /\ called.op = "Lexer"
    /\ text' = Inserted(text, p, w)
    /\ pos' = Lexer(text').pos
    /\ current_char' = Lexer(text').current_char
    /\ called' = Call("reopen", [text |-> text, at |-> p, run |-> w], NoErr, None)
    /\ pc' = "reopened"
    /\ UNCHANGED <<current_token, stdout, interpreter>>

InsertWhitespace == \E p \in Boundaries(text) : \E w \in WhitespaceRuns : Reopen(p, w)

InsertComment ==
    \E p \in Boundaries(text) :
        \E w \in CommentLines \cup (IF p = Len(text) THEN LastComments ELSE {}) :
            Reopen(p, w)

InsertNext == InsertWhitespace \/ InsertComment

SpecInsert == InsertInit /\ [][InsertNext]_vars

\* the successive get_next_token calls have the same outcomes on both texts
SameTokens(ts1, ts2) ==
    /\ Len(ts1) = Len(ts2)
    /\ \A k \in 1..Len(ts1) : k <= Len(ts2) => SameOutcome(ts1[k], ts2[k])

(***************************************************************************)
(* C19: putting a run of whitespace, or a '#' comment running to the end   *)
(* of its line, between two tokens leaves the sequence of (type, value)    *)
(* pairs of the successive get_next_token calls unchanged, also when the   *)
(* comment ends the text without a newline.                                *)
(***************************************************************************)
C19_BlanksAndCommentsAreTransparent ==
    called.op = "reopen" => SameTokens(TokenStream(called.pre.text), TokenStream(text))

\* a comment line put between two tokens that both come out again
C19_Witness ==
    /\ called.op = "reopen"
    /\ called.pre.run[1] = "#"
    /\ called.pre.at < Len(called.pre.text)
    /\ Len(TokenStream(text)) >= 3
    /\ TokenStream(text)[2].err = NoErr
    /\ TokenStream(text)[2].tok.type # EOF
    /\ TokenStream(text)[3].err = NoErr

\* a comment put at the very end of the text, with no newline behind it
C19_CommentEndsText ==
    /\ called.op = "reopen"
    /\ called.pre.run[1] = "#"
    /\ text[Len(text)] # "\n"
    /\ called.pre.at = Len(called.pre.text)


(***************************************************************************)
(* C21: a get_next_token call that returns a token other than EOF strictly *)
(* increases pos, so a text of length n yields at most n such tokens       *)
(* before EOF; once EOF has been returned, every later get_next_token and  *)
(* peek_token call returns EOF again and leaves pos unchanged.             *)
(***************************************************************************)
\* the last call returned the EOF token
ReturnedEOF(ops) ==
    /\ called.op \in ops
    /\ called.err = NoErr
    /\ called.ret.type = EOF

\* called on the lexer as it stands, get_next_token and peek_token both
\* return EOF and leave the cursor where it is
EOFAgain ==
    /\ get_next_token(text, ls_now).err = NoErr
    /\ get_next_token(text, ls_now).tok.type = EOF
    /\ get_next_token(text, ls_now).ls = ls_now
    /\ peek_token(text, ls_now).err = NoErr
    /\ peek_token(text, ls_now).tok.type = EOF
    /\ peek_token(text, ls_now).ls = ls_now

\* a get_next_token that returns a token moves the cursor forward, within the text
TokenMovesCursor ==
    (called.op = "get_next_token" /\ called.err = NoErr /\ called.ret.type # EOF) =>
        /\ called.pre.pos < pos
        /\ pos <= Len(text)

\* C21 as stated: the EOF may have come from get_next_token or from peek_token
C21_ProgressAndEOFAsStated ==
    /\ TokenMovesCursor
    /\ ReturnedEOF({"get_next_token", "peek_token"}) => EOFAgain

\* C21 for an EOF that get_next_token returned: the cursor is then at the end
\* of the text, where no call moves it, so every later call finds it there
C21_ProgressAndEOF ==
    /\ TokenMovesCursor
    /\ ReturnedEOF({"get_next_token"}) =>
           /\ Cardinality(TokensOf(text)) <= Len(text)
           /\ current_char = None
           /\ EOFAgain
    /\ current_char = None => EOFAgain

\* get_next_token has passed trailing blanks behind a token and returned EOF
C21_Witness ==
    /\ ReturnedEOF({"get_next_token"})
    /\ called.pre.pos < pos
    /\ 0 < called.pre.pos
    /\ TokensOf(text) # {}


(***************************************************************************)
(* C22: Parser.parse terminates: every statement() call raises or consumes *)
(* at least one token, and parse ends by returning a Block whose           *)
(* statements are in source order, the current token at EOF, or by raising *)
(* a ParserError or a LexerError.                                          *)
(***************************************************************************)
RECURSIVE Leaves(_), LeavesOfAll(_)
\* the names, numbers, strings and booleans of a tree, as tokens, left to right
Leaves(a) ==
    CASE a.kind = "Num" -> <<Token(INTEGER, a.value)>>
      [] a.kind = "String" -> <<Token(STRING_, a.value)>>
      [] a.kind \in {"Var", "Bool"} -> <<a.token>>
      [] a.kind = "BinOp" -> Leaves(a.left) \o Leaves(a.right)
      [] a.kind \in {"VarDecl", "AssignNode"} -> Leaves(a.var_node) \o Leaves(a.value_node)
      [] a.kind = "Block" -> LeavesOfAll(a.statements)
      [] a.kind = "IfNode" ->
             Leaves(a.condition) \o Leaves(a.then_block) \o Leaves(a.else_block)
      [] a.kind = "WhileNode" -> Leaves(a.condition) \o Leaves(a.body)
      [] a.kind = "PrintNode" -> Leaves(a.expression)
      [] a.kind = "ReturnNode" -> Leaves(a.value_node)
      [] a.kind = "FunctionDefNode" ->
             <<Token(ID, a.name)>> \o [k \in 1..Len(a.params) |-> Token(ID, a.params[k])]
                 \o Leaves(a.body)
      [] a.kind = "FunctionCallNode" -> <<Token(ID, a.name)>> \o LeavesOfAll(a.args)
      [] OTHER -> <<>>

LeavesOfAll(nodes) ==
    IF nodes = <<>> THEN <<>> ELSE Leaves(Head(nodes)) \o LeavesOfAll(Tail(nodes))

IsLeafToken(tok) == tok.type \in {ID, INTEGER, STRING_, TRUE_, FALSE_}

\* the Block holds the names and literals of the text in the order of the text
\* (a for loop is rearranged into its while loop, so texts with one are left out)
InSourceOrder ==
    (\A k \in 1..Len(AheadOfCall) : AheadOfCall[k].type # FOR) =>
        /\ Len(Leaves(called.ret)) = Len(SelectSeq(AheadOfCall, IsLeafToken))
        /\ \A k \in 1..Len(Leaves(called.ret)) :
               TokEq(Leaves(called.ret)[k], SelectSeq(AheadOfCall, IsLeafToken)[k])

\* a statement() that returns has read at least one token
StatementConsumes == StatementReturned => called.n > called.pre.n

\* parse returned the Block of the whole text and stands at EOF
ParseReturnedBlock ==
    /\ called.err = NoErr
    /\ called.ret.kind = "Block"
    /\ current_token.type = EOF
    /\ InSourceOrder

\* C22: statements make progress; parse returns its Block at EOF or raises a syntax error
C22_ParseTerminates ==
    /\ StatementConsumes
    /\ called.op = "parse" =>
           \/ ParseReturnedBlock
           \/ called.err \in {"ParserError", "LexerError"}

\* what does hold: the same, with the NameError of the lexer among the
\* exceptions that end a parse
C22_ParseEnds ==
    /\ StatementConsumes
    /\ called.op = "parse" =>
           \/ ParseReturnedBlock
           \/ called.err \in {"ParserError", "LexerError", "NameError"}


(***************************************************************************)
(* C23: the parser accepts a ';' only at the two separator positions of a  *)
(* for header; a ';' behind a top-level statement, behind a statement of a *)
(* block or behind return expr is not skipped: it reaches Parser.primary   *)
(* and the parse fails with a ParserError.                                 *)
(***************************************************************************)
\* the tokens a call has consumed: those the parser has moved past
Consumed ==
    [k \in 1..(called.n - called.pre.n) |->
        Entry(TokenStream(text), called.pre.n + k - 1).tok]

IsSemi(tok) == tok.type = SEMI
IsFor(tok) == tok.type = FOR

\* the call raised through Parser.error, which only primary calls, on a ';'
PrimaryRejectedSemi ==
    /\ called.err = "ParserError"
    /\ called.expected = None
    /\ called.found.type = SEMI
    /\ current_token.type = SEMI
    /\ called.ret = None

C23_SemicolonOnlyInForHeader ==
    \* a statement that starts at a ';', as the one behind a top-level statement does
    /\ (called.op \in {"statement", "parse"} /\ called.pre.current_token.type = SEMI) =>
           /\ PrimaryRejectedSemi
           /\ called.n = called.pre.n
    \* a ';' behind a statement of a block: of a block of the program, parsed
    \* by parse, or of a block on its own, parsed by block
    /\ (/\ text \in SemiInBlockTexts
        /\ called.op = IF text[1] = "{" THEN "block" ELSE "parse"
        /\ called.pre.n = 1) =>
           PrimaryRejectedSemi
    \* what a call that returns has consumed holds two ';' for each for, and no other
    /\ (called.op \in {"statement", "parse", "block"} /\ called.err = NoErr) =>
           Len(SelectSeq(Consumed, IsSemi)) = 2 * Len(SelectSeq(Consumed, IsFor))

\* parse met the ';' behind a statement of a block, some tokens into the text
C23_Witness ==
    /\ called.op = "parse"
    /\ called.pre.n = 1
    /\ text \in SemiInBlockTexts
    /\ PrimaryRejectedSemi
    /\ called.n > 4

\* a ';' behind a top-level statement, met by the parse that follows it
C23_TopLevel ==
    /\ called.op = "parse"
    /\ called.pre.n > 1
    /\ called.pre.current_token.type = SEMI
    /\ PrimaryRejectedSemi

\* a for header consumed with its two ';'
C23_ForHeader ==
    /\ called.op = "parse"
    /\ called.err = NoErr
    /\ Len(SelectSeq(Consumed, IsSemi)) >= 2

=============================================================================
